---- MODULE Spec2Model ----
(***************************************************************************)
(* Job state synchronisation of the JobManager component                   *)
(* (src/src/frontend/components/jobs/JobManager.tsx).                      *)
(*                                                                         *)
(* The component keeps a list `jobs` that is written by two sources:       *)
(*   - fetchJobs: one awaited read of the whole table per effect run,      *)
(*   - the postgres_changes callback of subscribeToJobUpdates.             *)
(* The model contains the component (its state, its effect and cleanup,    *)
(* both writers) and the environment it talks to: the table               *)
(* optimization_jobs, the commits made on it, and the channel that         *)
(* carries one change event per commit, in commit order per id.            *)
(*                                                                         *)
(* Rows carry one column the component never reads, `ver`: the number of   *)
(* commits made on the row.  It is history information only; it lets the   *)
(* properties say which server version a displayed record reflects.        *)
(***************************************************************************)
EXTENDS Naturals, Sequences, FiniteSets

VARIABLES
    jobs,       \* useState<Job[]>([])            (JobManager.tsx:22)
    isLoading,  \* useState(true)                 (JobManager.tsx:23)
    session,    \* useSession(): 0 is "no user", k > 0 the k-th session object
    mounted,    \* the component is mounted
    cleanup,    \* effect run whose cleanup function is registered, 0 if none
    run,        \* number of effect runs that took the `session?.user` branch
    fetch,      \* per effect run: the state of its fetchJobs() call
    chan,       \* per effect run: the state of its channel
    unsubCalls, \* per effect run: number of channel.unsubscribe() calls
    inflight,   \* change events sent on the subscribed channel, not yet delivered
    toasts,     \* number of toast.error notifications shown
    db,         \* the table optimization_jobs: live id -> row
    created,    \* ids ever inserted
    clock,      \* number of commits made on the table
    last,       \* the last step the component took
    prev,       \* the component's state before that step
    pend,       \* reducer runs: per id, the events still to apply
    orig,       \* reducer runs: per id, the whole event sequence
    downloads   \* the files handed to the browser by handleDownloadResults

vars == <<jobs, isLoading, session, mounted, cleanup, run, fetch, chan,
          unsubCalls, inflight, toasts, db, created, clock, last, prev,
          pend, orig, downloads>>

clientVars == <<jobs, isLoading, session, mounted, cleanup, run, chan,
                unsubCalls, toasts>>

(***************************************************************************)
(* Bounds                                                                  *)
(***************************************************************************)
MaxMoves == 4       \* commits made on the table plus effect runs with a user
MaxEvs == 2         \* reducer runs: events per id
MaxLogs == 2        \* view runs: log lines of the job
MaxClicks == 2      \* view runs: clicks on the download button

JobIds == {"a", "b"}
Runs == 1..MaxMoves

(***************************************************************************)
(* The Job record (JobManager.tsx:10-19) and the rows of the table         *)
(***************************************************************************)
Status == {"PENDING", "RUNNING", "COMPLETED", "FAILED"}

Null == "null"

JobFields == {"id", "solver_id", "dataset_id", "status", "parameters",
              "results", "logs", "error_message", "created_at"}

\* A row as the server creates it: status PENDING, nothing produced yet.
NewRow(id, at) ==
    [id |-> id, solver_id |-> "solver_" \o id, dataset_id |-> "data_" \o id,
     status |-> "PENDING", parameters |-> "params_" \o id, results |-> Null,
     logs |-> <<>>, error_message |-> Null, created_at |-> at, ver |-> 1]

\* { ...job, ...fresh }: the fields of fresh win, the others are kept.
Spread(job, fresh) ==
    [f \in (DOMAIN job) \cup (DOMAIN fresh) |->
        IF f \in DOMAIN fresh THEN fresh[f] ELSE job[f]]

NoFields == [f \in {} |-> Null]

IdsOf(list) == {list[i].id : i \in 1..Len(list)}

HasId(list, id) == \E i \in 1..Len(list) : list[i].id = id

(***************************************************************************)
(* The table and the commits made on it                                    *)
(***************************************************************************)
UpdateKinds == {"run", "complete", "fail", "log"}

LogLines == <<"l1", "l2", "l3", "l4", "l5">>

\* The columns a commit of the given kind writes.  A log commit writes the
\* whole log sequence, one line longer than before.
Changes(kind, row) ==
    CASE kind = "run"      -> [status |-> "RUNNING"]
      [] kind = "complete" -> [status |-> "COMPLETED", results |-> "x1"]
      [] kind = "fail"     -> [status |-> "FAILED", error_message |-> "boom"]
      [] kind = "log"      -> [logs |-> SubSeq(LogLines, 1, Len(row.logs) + 1)]

\* .from('optimization_jobs').select('*').order('created_at', {ascending: false})
Snapshot(table) ==
    LET n == Cardinality(DOMAIN table)
        rows == {table[i] : i \in DOMAIN table}
    IN  CHOOSE s \in [1..n -> rows] :
            /\ \A r \in rows : \E i \in 1..n : s[i] = r
            /\ \A i, j \in 1..n : i < j => s[i].created_at > s[j].created_at

\* A change event as the channel hands it to the callback (payload).
Event(type, new, id) == [eventType |-> type, new |-> new, old |-> [id |-> id]]

EventId(e) == e.old.id

Subscribed == \E k \in Runs : chan[k] = "subscribed"

\* The channel carries the event only while a subscription is open.
Emit(e) == inflight' = IF Subscribed THEN Append(inflight, e) ELSE inflight

ServerInsert(id) ==
    /\ clock + run < MaxMoves
    /\ id \notin created
    /\ LET row == NewRow(id, clock + 1) IN
        /\ db' = [i \in (DOMAIN db) \cup {id} |-> IF i = id THEN row ELSE db[i]]
        /\ Emit(Event("INSERT", row, id))
    /\ created' = created \cup {id}
    /\ clock' = clock + 1
    /\ UNCHANGED <<clientVars, fetch, last, prev, pend, orig, downloads>>

ServerUpdate(id, kind) ==
    /\ clock + run < MaxMoves
    /\ id \in DOMAIN db
    /\ LET delta == Spread(Changes(kind, db[id]), [ver |-> db[id].ver + 1]) IN
        /\ db' = [db EXCEPT ![id] = Spread(db[id], delta)]
        /\ Emit(Event("UPDATE", Spread(delta, [id |-> id]), id))
    /\ clock' = clock + 1
    /\ UNCHANGED <<clientVars, fetch, created, last, prev, pend, orig, downloads>>

ServerDelete(id) ==
    /\ clock + run < MaxMoves
    /\ id \in DOMAIN db
    /\ db' = [i \in (DOMAIN db) \ {id} |-> db[i]]
    /\ Emit(Event("DELETE", NoFields, id))
    /\ clock' = clock + 1
    /\ UNCHANGED <<clientVars, fetch, created, last, prev, pend, orig, downloads>>

(***************************************************************************)
(* fetchJobs (JobManager.tsx:36-51)                                        *)
(***************************************************************************)
NoResp == [error |-> FALSE, dataNull |-> TRUE, data |-> <<>>]

Idle == [st |-> "idle", resp |-> NoResp]

\* The backend answers a pending read: with the rows it holds at that
\* moment, or with an error (and then no data).
ServerRead(k, fails) ==
    /\ fetch[k].st = "requested"
    /\ fetch' = [fetch EXCEPT ![k] =
            [st |-> "responded",
             resp |-> IF fails
                      THEN [error |-> TRUE, dataNull |-> TRUE, data |-> <<>>]
                      ELSE [error |-> FALSE, dataNull |-> FALSE,
                            data |-> Snapshot(db)]]]
    /\ UNCHANGED <<clientVars, inflight, db, created, clock, last, prev,
                   pend, orig, downloads>>

\* data || []
OrEmpty(resp) == IF resp.dataNull THEN <<>> ELSE resp.data

\* Variant: the error is not thrown, so the setter runs with no data.
JobsAfterFetch_NoThrow(prevJobs, resp) == OrEmpty(resp)

\* if (error) throw error; setJobs(data || []): the throw skips the setter.
JobsAfterFetch(prevJobs, resp) ==
    IF resp.error THEN prevJobs ELSE OrEmpty(resp)

\* catch: toast.error('Failed to fetch jobs')
ToastsAfterFetch(shown, resp) == IF resp.error THEN shown + 1 ELSE shown

Before ==
    [jobs |-> jobs, isLoading |-> isLoading, toasts |-> toasts,
     downloads |-> downloads]

\* Variant: setIsLoading(false) sits in the try block, not in finally.
LoadingAfterFetch_InTry(loading, resp) == IF resp.error THEN loading ELSE FALSE

\* finally { setIsLoading(false) }
LoadingAfterFetch(loading, resp) == FALSE

\* The continuation of fetchJobs after the await.  State setters of a
\* component that is no longer mounted have no effect.
FetchResolve(k) ==
    /\ fetch[k].st = "responded"
    /\ LET resp == fetch[k].resp IN
        /\ jobs' = IF mounted THEN JobsAfterFetch(jobs, resp) ELSE jobs
        /\ toasts' = ToastsAfterFetch(toasts, resp)
        /\ fetch' = [fetch EXCEPT ![k] =
                [st |-> IF resp.error THEN "failed" ELSE "loaded",
                 resp |-> NoResp]]
        /\ last' = [op |-> "fetch", k |-> k, resp |-> resp, mounted |-> mounted]
    /\ isLoading' = IF mounted THEN LoadingAfterFetch(isLoading, fetch[k].resp)
                    ELSE isLoading
    /\ prev' = Before
    /\ UNCHANGED <<session, mounted, cleanup, run, chan, unsubCalls, inflight,
                   db, created, clock, pend, orig, downloads>>

(***************************************************************************)
(* The postgres_changes callback (JobManager.tsx:63-74)                    *)
(***************************************************************************)
\* Variant: an update of an id that is not in the list adds the record.
ApplyUpdate_Upsert(prevJobs, new) ==
    LET merged == [i \in 1..Len(prevJobs) |->
                      IF prevJobs[i].id = new.id THEN Spread(prevJobs[i], new)
                      ELSE prevJobs[i]]
    IN  IF HasId(prevJobs, new.id) THEN merged ELSE Append(merged, new)

\* Variant: the id test is missing, every record takes the payload's fields.
ApplyUpdate_All(prevJobs, new) ==
    [i \in 1..Len(prevJobs) |-> Spread(prevJobs[i], new)]

\* Variant: the matching record is replaced by the payload, not merged with it.
ApplyUpdate_Replace(prevJobs, new) ==
    [i \in 1..Len(prevJobs) |->
        IF prevJobs[i].id = new.id THEN new ELSE prevJobs[i]]

\* Variant: a status that is no valid transition from the record's status
\* is rejected (PENDING < RUNNING < COMPLETED, FAILED).
ApplyUpdate_Legal(prevJobs, new) ==
    LET rank(st) == CASE st = "PENDING" -> 0 [] st = "RUNNING" -> 1 [] OTHER -> 2
        legal(job) == "status" \in DOMAIN new => rank(new.status) > rank(job.status)
    IN  [i \in 1..Len(prevJobs) |->
            IF prevJobs[i].id = new.id /\ legal(prevJobs[i])
            THEN Spread(prevJobs[i], new) ELSE prevJobs[i]]

\* Variant: only the status of the payload is taken over.
ApplyUpdate_StatusOnly(prevJobs, new) ==
    [i \in 1..Len(prevJobs) |->
        IF prevJobs[i].id = new.id /\ "status" \in DOMAIN new
        THEN Spread(prevJobs[i], [status |-> new.status]) ELSE prevJobs[i]]

\* prevJobs.map(job => job.id === payload.new.id ? {...job, ...payload.new} : job)
ApplyUpdate(prevJobs, new) ==
    [i \in 1..Len(prevJobs) |->
        IF prevJobs[i].id = new.id THEN Spread(prevJobs[i], new) ELSE prevJobs[i]]

\* Variant: the new record is put at the end.
ApplyInsert_Append(prevJobs, new) == Append(prevJobs, new)

\* [payload.new, ...prevJobs]
ApplyInsert(prevJobs, new) == <<new>> \o prevJobs

\* Variant: a DELETE event removes the record it names.
OnPayload_Delete(prevJobs, payload) ==
    IF payload.eventType = "UPDATE" THEN ApplyUpdate(prevJobs, payload.new)
    ELSE IF payload.eventType = "INSERT" THEN ApplyInsert(prevJobs, payload.new)
    ELSE SelectSeq(prevJobs, LAMBDA job : job.id /= payload.old.id)

\* Variant: an INSERT event sets the list to the new record alone.
OnPayload_InsertAlone(prevJobs, payload) ==
    IF payload.eventType = "UPDATE" THEN ApplyUpdate(prevJobs, payload.new)
    ELSE IF payload.eventType = "INSERT" THEN <<payload.new>>
    ELSE prevJobs

OnPayload(prevJobs, payload) ==
    IF payload.eventType = "UPDATE" THEN ApplyUpdate(prevJobs, payload.new)
    ELSE IF payload.eventType = "INSERT" THEN ApplyInsert(prevJobs, payload.new)
    ELSE prevJobs

\* Events of one id are delivered in the order they were sent.
Deliverable(i) ==
    \A j \in 1..(i - 1) : EventId(inflight[j]) /= EventId(inflight[i])

Without(s, i) == SubSeq(s, 1, i - 1) \o SubSeq(s, i + 1, Len(s))

DeliverEvent(i) ==
    /\ i \in 1..Len(inflight)
    /\ Deliverable(i)
    /\ jobs' = OnPayload(jobs, inflight[i])
    /\ inflight' = Without(inflight, i)
    /\ last' = [op |-> "event", payload |-> inflight[i]]
    /\ prev' = Before
    /\ UNCHANGED <<isLoading, session, mounted, cleanup, run, fetch, chan,
                   unsubCalls, toasts, db, created, clock, pend, orig, downloads>>

(***************************************************************************)
(* The effect on [session] and its cleanup (JobManager.tsx:26-34)          *)
(***************************************************************************)
\* return () => { channel.unsubscribe(); }  of the effect run c (0: none).
\* Unsubscribing stops the delivery of the events still on the way.
\* Variant: the cleanup releases the channel only once loading has ended.
Cleanup_WhenLoaded(c, chans, calls) ==
    IF isLoading
    THEN [chan |-> chans, calls |-> calls]
    ELSE [chan |-> [k \in Runs |-> IF k = c THEN "closed" ELSE chans[k]],
          calls |-> [k \in Runs |-> IF k = c THEN calls[k] + 1 ELSE calls[k]]]

\* Variant: the effect returns no cleanup.
Cleanup_None(c, chans, calls) == [chan |-> chans, calls |-> calls]

Cleanup(c, chans, calls) ==
    [chan |-> [k \in Runs |-> IF k = c THEN "closed" ELSE chans[k]],
     calls |-> [k \in Runs |-> IF k = c THEN calls[k] + 1 ELSE calls[k]]]

\* Variant: the effect does not test the session for a user.
HasUser_Always(user) == TRUE

\* if (session?.user)
HasUser(user) == user

\* The effect runs: at mount, and whenever the session value changes (to a
\* session with a user or to a value without one).  The cleanup of the
\* previous run is called first.  With a user the effect calls fetchJobs()
\* and subscribeToJobUpdates() and registers the cleanup.
SessionChange(user) ==
    /\ mounted
    /\ user => clock + run < MaxMoves
    /\ HasUser(user) => run < MaxMoves
    /\ LET released == Cleanup(cleanup, chan, unsubCalls)
           k == run + 1
       IN  IF HasUser(user)
           THEN /\ session' = IF user THEN k ELSE 0
                /\ run' = k
                /\ cleanup' = k
                /\ fetch' = [fetch EXCEPT ![k] = [st |-> "requested", resp |-> NoResp]]
                /\ chan' = [released.chan EXCEPT ![k] = "subscribed"]
                /\ unsubCalls' = released.calls
           ELSE /\ session' = 0
                /\ cleanup' = 0
                /\ chan' = released.chan
                /\ unsubCalls' = released.calls
                /\ UNCHANGED <<run, fetch>>
    /\ inflight' = IF cleanup = 0 THEN inflight ELSE <<>>
    /\ last' = [op |-> "effect", user |-> user, closed |-> cleanup]
    /\ prev' = Before
    /\ UNCHANGED <<jobs, isLoading, mounted, toasts, db, created, clock,
                   pend, orig, downloads>>

Unmount ==
    /\ mounted
    /\ mounted' = FALSE
    /\ cleanup' = 0
    /\ chan' = Cleanup(cleanup, chan, unsubCalls).chan
    /\ unsubCalls' = Cleanup(cleanup, chan, unsubCalls).calls
    /\ inflight' = IF cleanup = 0 THEN inflight ELSE <<>>
    /\ last' = [op |-> "unmount", closed |-> cleanup]
    /\ prev' = Before
    /\ UNCHANGED <<jobs, isLoading, session, run, fetch, toasts, db, created,
                   clock, pend, orig, downloads>>

(***************************************************************************)
(* The component with its environment                                      *)
(***************************************************************************)
NoEvents == [i \in JobIds |-> <<>>]

Init ==
    /\ jobs = <<>>
    /\ isLoading = TRUE
    /\ session = 0
    /\ mounted = TRUE
    /\ cleanup = 0
    /\ run = 0
    /\ fetch = [k \in Runs |-> Idle]
    /\ chan = [k \in Runs |-> "none"]
    /\ unsubCalls = [k \in Runs |-> 0]
    /\ inflight = <<>>
    /\ toasts = 0
    /\ db = [i \in {} |-> NoFields]
    /\ created = {}
    /\ clock = 0
    /\ last = [op |-> "init"]
    /\ prev = [jobs |-> <<>>, isLoading |-> TRUE, toasts |-> 0,
               downloads |-> <<>>]
    /\ downloads = <<>>
    /\ pend = NoEvents
    /\ orig = NoEvents

Next ==
    \/ \E id \in JobIds : ServerInsert(id)
    \/ \E id \in JobIds, kind \in UpdateKinds : ServerUpdate(id, kind)
    \/ \E id \in JobIds : ServerDelete(id)
    \/ \E k \in Runs, fails \in BOOLEAN : ServerRead(k, fails)
    \/ \E k \in Runs : FetchResolve(k)
    \/ \E i \in 1..MaxMoves : DeliverEvent(i)
    \/ \E user \in BOOLEAN : SessionChange(user)
    \/ Unmount

Spec == Init /\ [][Next]_vars

(***************************************************************************)
(* The callback as a reducer: the events of each id are fixed at the       *)
(* start and applied to an empty list, those of one id in their order,     *)
(* those of different ids in any interleaving.                             *)
(***************************************************************************)
ReducerEvents(id) ==
    { Event("INSERT", NewRow(id, 1), id),
      Event("UPDATE", [id |-> id, status |-> "RUNNING"], id),
      Event("UPDATE", [id |-> id, status |-> "COMPLETED", results |-> "x1"], id),
      Event("UPDATE", [id |-> id, logs |-> <<"l1">>], id) }

EventSeqs(id) ==
    {<<>>} \cup UNION {[1..n -> ReducerEvents(id)] : n \in 1..MaxEvs}

InitReducer ==
    /\ \E ofA \in EventSeqs("a"), ofB \in EventSeqs("b") :
            orig = [id \in JobIds |-> IF id = "a" THEN ofA ELSE ofB]
    /\ pend = orig
    /\ jobs = <<>>
    /\ isLoading = TRUE
    /\ session = 0
    /\ mounted = TRUE
    /\ cleanup = 0
    /\ run = 0
    /\ fetch = [k \in Runs |-> Idle]
    /\ chan = [k \in Runs |-> "none"]
    /\ unsubCalls = [k \in Runs |-> 0]
    /\ inflight = <<>>
    /\ toasts = 0
    /\ db = [i \in {} |-> NoFields]
    /\ created = {}
    /\ clock = 0
    /\ last = [op |-> "init"]
    /\ prev = [jobs |-> <<>>, isLoading |-> TRUE, toasts |-> 0,
               downloads |-> <<>>]
    /\ downloads = <<>>

\* The callback runs on the next event of the id.
ApplyNext(id) ==
    /\ pend[id] /= <<>>
    /\ jobs' = OnPayload(jobs, Head(pend[id]))
    /\ pend' = [pend EXCEPT ![id] = Tail(pend[id])]
    /\ last' = [op |-> "event", payload |-> Head(pend[id])]
    /\ prev' = Before
    /\ UNCHANGED <<isLoading, session, mounted, cleanup, run, fetch, chan,
                   unsubCalls, inflight, toasts, db, created, clock, orig, downloads>>

NextReducer == \E id \in JobIds : ApplyNext(id)

SpecReducer == InitReducer /\ [][NextReducer]_vars

RECURSIVE ApplyAll(_, _)
ApplyAll(list, events) ==
    IF events = <<>> THEN list
    ELSE ApplyAll(OnPayload(list, Head(events)), Tail(events))

\* The events applied one id after the other: all of "a", then all of "b".
OneByOne == ApplyAll(ApplyAll(<<>>, orig["a"]), orig["b"])

RecordsOf(list, id) == SelectSeq(list, LAMBDA job : job.id = id)

AllApplied == \A id \in JobIds : pend[id] = <<>>

(***************************************************************************)
(* handleDownloadResults (JobManager.tsx:81-110)                           *)
(*                                                                         *)
(* A text is a sequence of tokens: a token is a whitespace character       *)
(* ("\n", " ") or a run of other characters.  An empty string is the empty *)
(* sequence.                                                               *)
(***************************************************************************)
Undefined == "undefined"

\* job.field: undefined when the record has no such field.
Get(job, f) == IF f \in DOMAIN job THEN job[f] ELSE Undefined

\* The values JavaScript takes as false in !x and x || y.
Falsy == {Undefined, Null, "false", "0", ""}

Whitespace == {"\n", " "}

\* A log line as text: the empty line has no token.
LineText(line) == IF line = "" THEN <<>> ELSE <<line>>

\* lines.join('\n')
RECURSIVE Join(_)
Join(lines) ==
    IF lines = <<>> THEN <<>>
    ELSE IF Len(lines) = 1 THEN LineText(lines[1])
    ELSE LineText(lines[1]) \o <<"\n">> \o Join(Tail(lines))

\* text.trim()
RECURSIVE Trim(_)
Trim(text) ==
    IF text = <<>> THEN <<>>
    ELSE IF Head(text) \in Whitespace THEN Trim(Tail(text))
    ELSE IF text[Len(text)] \in Whitespace
         THEN Trim(SubSeq(text, 1, Len(text) - 1))
    ELSE text

NoLogsText == <<"No", " ", "logs", " ", "available">>

\* joined || 'No logs available', for a joined text (a string)
OrPlaceholder(joined) == IF joined = <<>> THEN NoLogsText ELSE joined

\* job.logs?.join('\n') || 'No logs available'
LogsText(job) ==
    IF "logs" \in DOMAIN job THEN OrPlaceholder(Join(job.logs)) ELSE NoLogsText

\* JSON.stringify(value, null, 2), kept as one token per value
Stringify(value) == <<"json:" \o value>>

HeaderText(id) ==
    <<"Optimization", " ", "Results", " ", "for", " ", "Job", " ", id>>

\* The template literal of lines 87-99, trimmed.
ResultsText(job) ==
    Trim(<<"\n">> \o HeaderText(job.id) \o <<"\n">>
         \o <<"=====================================", "\n", "\n">>
         \o <<"Parameters:", "\n">> \o Stringify(Get(job, "parameters"))
         \o <<"\n", "\n">>
         \o <<"Results:", "\n">> \o Stringify(Get(job, "results"))
         \o <<"\n", "\n">>
         \o <<"Logs:", "\n">> \o LogsText(job)
         \o <<"\n", " ", " ", " ", " ">>)

\* Variant: the guard on job.results is missing.
HasResults_Always(job) == TRUE

\* !job.results is false
HasResults(job) == Get(job, "results") \notin Falsy

\* a.download = `optimization_results_${job.id}.txt`, the Blob's text and type
Download(job) ==
    [name |-> "optimization_results_" \o job.id \o ".txt",
     type |-> "text/plain",
     text |-> ResultsText(job)]

\* A click on the download button of the i-th job.
HandleDownloadResults(i) ==
    /\ i \in 1..Len(jobs)
    /\ toasts + Len(downloads) < MaxClicks
    /\ IF HasResults(jobs[i])
       THEN /\ downloads' = Append(downloads, Download(jobs[i]))
            /\ toasts' = toasts
       ELSE /\ toasts' = toasts + 1
            /\ downloads' = downloads
    /\ last' = [op |-> "download", job |-> jobs[i]]
    /\ prev' = Before
    /\ UNCHANGED <<jobs, isLoading, session, mounted, cleanup, run, fetch, chan,
                   unsubCalls, inflight, db, created, clock, pend, orig>>

(***************************************************************************)
(* getStatusColor and getProgressValue (JobManager.tsx:112-136)            *)
(***************************************************************************)
\* Variant: the FAILED case is missing and falls to the default.
getStatusColor_NoFailed(status) ==
    CASE status = "COMPLETED" -> "bg-green-500"
      [] status = "RUNNING"   -> "bg-blue-500"
      [] OTHER                -> "bg-gray-500"

getStatusColor(status) ==
    CASE status = "COMPLETED" -> "bg-green-500"
      [] status = "FAILED"    -> "bg-red-500"
      [] status = "RUNNING"   -> "bg-blue-500"
      [] OTHER                -> "bg-gray-500"

getProgressValue(status) ==
    CASE status = "COMPLETED" -> 100
      [] status = "FAILED"    -> 100
      [] status = "RUNNING"   -> 50
      [] OTHER                -> 0

\* The card of the i-th job is rendered: its status is projected.
RenderCard(i) ==
    /\ i \in 1..Len(jobs)
    /\ last' = [op |-> "render", status |-> jobs[i].status,
                color |-> getStatusColor(jobs[i].status),
                progress |-> getProgressValue(jobs[i].status)]
    /\ prev' = Before
    /\ UNCHANGED <<jobs, isLoading, session, mounted, cleanup, run, fetch, chan,
                   unsubCalls, inflight, toasts, db, created, clock, pend,
                   orig, downloads>>

(***************************************************************************)
(* The view of one job: the list holds a single job, drawn at the start,   *)
(* whose card is rendered and whose download button is clicked.            *)
(***************************************************************************)
LogLineValues == {"", "l1", "l2"}

LogValues == {<<>>} \cup UNION {[1..n -> LogLineValues] : n \in 1..MaxLogs}

ResultValues == {Null, "0", "x1"}

\* The jobs the view is run on: any status, results and logs present or not.
ViewJobs ==
    LET base == NewRow("a", 1)
        core == [f \in (DOMAIN base) \ {"results", "logs"} |-> base[f]]
        withResults == {core} \cup {Spread(core, [results |-> r]) : r \in ResultValues}
        withLogs == withResults
                    \cup {Spread(j, [logs |-> l]) : j \in withResults, l \in LogValues}
    IN  {Spread(j, [status |-> st]) : j \in withLogs, st \in Status}

InitView ==
    /\ \E job \in ViewJobs : jobs = <<job>>
    /\ isLoading = FALSE
    /\ session = 0
    /\ mounted = TRUE
    /\ cleanup = 0
    /\ run = 0
    /\ fetch = [k \in Runs |-> Idle]
    /\ chan = [k \in Runs |-> "none"]
    /\ unsubCalls = [k \in Runs |-> 0]
    /\ inflight = <<>>
    /\ toasts = 0
    /\ db = [i \in {} |-> NoFields]
    /\ created = {}
    /\ clock = 0
    /\ last = [op |-> "init"]
    /\ prev = [jobs |-> jobs, isLoading |-> FALSE, toasts |-> 0,
               downloads |-> <<>>]
    /\ downloads = <<>>
    /\ pend = NoEvents
    /\ orig = NoEvents

NextView ==
    \/ \E i \in 1..Len(jobs) : HandleDownloadResults(i)
    \/ \E i \in 1..Len(jobs) : RenderCard(i)

SpecView == InitView /\ [][NextView]_vars

(***************************************************************************)
(* Properties                                                              *)
(***************************************************************************)
LastEvent(type) == last.op = "event" /\ last.payload.eventType = type

LastFetch == last.op = "fetch" /\ last.mounted

\* C1: no two records of the job list share an id; an INSERT event of an id
\* that is already listed does not add a second entry.
C1_NoDuplicateIds ==
    \A i, j \in 1..Len(jobs) : i /= j => jobs[i].id /= jobs[j].id

\* C2: a snapshot only seeds an empty list: a record that was listed before
\* the snapshot arrived and that the snapshot does not contain is still
\* listed after the snapshot has been applied.
C2_SnapshotKeepsLiveInserts ==
    (LastFetch /\ ~last.resp.error) =>
        \A id \in IdsOf(prev.jobs) \ IdsOf(last.resp.data) : HasId(jobs, id)

\* C3: the list never regresses: no step (snapshot arrival or event) leaves
\* a record of an id at a server version older than one the list showed
\* for that id before the step.
C3_NoRegression ==
    \A i \in 1..Len(prev.jobs), j \in 1..Len(jobs) :
        prev.jobs[i].id = jobs[j].id => jobs[j].ver >= prev.jobs[i].ver

\* C4: no step removes a record: the ids listed after a step include the
\* ids listed before it.
C4_NeverDeletes == IdsOf(prev.jobs) \subseteq IdsOf(jobs)

\* C5: an UPDATE event of an id that is not listed leaves the list as it
\* was (same records, same order, same length) and raises no error.
C5_UnknownUpdateIgnored ==
    (LastEvent("UPDATE") /\ ~HasId(prev.jobs, last.payload.new.id)) =>
        /\ jobs = prev.jobs
        /\ toasts = prev.toasts

C5_Witness ==
    /\ LastEvent("UPDATE")
    /\ ~HasId(prev.jobs, last.payload.new.id)
    /\ prev.jobs /= <<>>

\* C6: a failed snapshot fetch leaves the list exactly as it was before the
\* fetch resolved, records added by INSERT events included, and produces
\* one error notification.
C6_FailedFetchKeepsJobs ==
    (LastFetch /\ last.resp.error) =>
        /\ jobs = prev.jobs
        /\ toasts = prev.toasts + 1

C6_Witness ==
    /\ LastFetch
    /\ last.resp.error
    /\ prev.jobs /= <<>>
    /\ fetch[last.k].st = "failed"

\* C7: an UPDATE event that carries only id and status gives every listed
\* record of that id the event's status and leaves each of its other
\* fields (solver_id, dataset_id, parameters, results, logs, error_message,
\* created_at) as it was.
C7_StatusOnlyUpdateKeepsFields ==
    (LastEvent("UPDATE") /\ DOMAIN last.payload.new = {"id", "status", "ver"}) =>
        /\ Len(jobs) = Len(prev.jobs)
        /\ \A i \in 1..Len(prev.jobs) :
            prev.jobs[i].id = last.payload.new.id =>
                /\ JobFields \subseteq DOMAIN jobs[i]
                /\ jobs[i].status = last.payload.new.status
                /\ \A f \in JobFields \ {"status"} : jobs[i][f] = prev.jobs[i][f]

\* A snapshot that holds the record was loaded, then its status changed.
C7_Witness ==
    /\ LastEvent("UPDATE")
    /\ DOMAIN last.payload.new = {"id", "status", "ver"}
    /\ \E k \in Runs : fetch[k].st = "loaded"
    /\ \E i \in 1..Len(prev.jobs) :
        /\ prev.jobs[i].id = last.payload.new.id
        /\ prev.jobs[i].status /= last.payload.new.status
        /\ prev.jobs[i].results /= Null

\* C8: a session that acquired a subscription has no unsubscribe call while
\* it lasts and exactly one once it has ended, whatever the state of its
\* snapshot fetch.
C8_UnsubscribeExactlyOnce ==
    \A k \in Runs :
        IF k > run THEN chan[k] = "none" /\ unsubCalls[k] = 0
        ELSE IF session = k /\ mounted
             THEN chan[k] = "subscribed" /\ unsubCalls[k] = 0
             ELSE chan[k] = "closed" /\ unsubCalls[k] = 1

\* One session ended after its fetch failed, another while its fetch was
\* still pending.
C8_Witness ==
    /\ ~mounted
    /\ \E k \in Runs : fetch[k].st = "failed" /\ unsubCalls[k] = 1
    /\ \E k \in Runs : fetch[k].st = "requested" /\ unsubCalls[k] = 1

\* C9: per-id convergence: whatever the interleaving of the events of
\* different ids, once all events are applied the records of each id are
\* the ones that applying the events one id after the other produces.
C9_PerIdConvergence ==
    AllApplied =>
        \A id \in JobIds : RecordsOf(jobs, id) = RecordsOf(OneByOne, id)

\* Both ids have records, an update changed one, and the list differs from
\* the one-by-one list (an interleaving that is not the one-by-one order).
C9_Witness ==
    /\ AllApplied
    /\ \A id \in JobIds : HasId(jobs, id)
    /\ \E i \in 1..Len(jobs) : jobs[i].status /= "PENDING"
    /\ jobs /= OneByOne

\* C10: a change event whose type is neither INSERT nor UPDATE leaves the
\* list as it was.
C10_OtherEventIgnored ==
    (last.op = "event" /\ last.payload.eventType \notin {"INSERT", "UPDATE"}) =>
        jobs = prev.jobs

C10_Witness ==
    /\ LastEvent("DELETE")
    /\ HasId(prev.jobs, EventId(last.payload))

LastDownload == last.op = "download"

Exported == LastDownload /\ Len(downloads) = Len(prev.downloads) + 1

\* The part of an exported document that follows the line "Logs:".
LogsSection(text) ==
    LET at == CHOOSE i \in 1..Len(text) : text[i] = "Logs:"
    IN  SubSeq(text, at + 2, Len(text))

\* C11: the export of a job whose results are absent ends with one error
\* notification, hands no file to the browser and leaves the list as it was.
C11_NoResultsNoExport ==
    (LastDownload /\ Get(last.job, "results") \in {Undefined, Null}) =>
        /\ toasts = prev.toasts + 1
        /\ downloads = prev.downloads
        /\ jobs = prev.jobs

C11_Witness ==
    /\ LastDownload
    /\ "results" \notin DOMAIN last.job
    /\ last.job.status = "COMPLETED"
    /\ toasts = 1

\* C12: in an exported document the part after "Logs:" is the log lines
\* joined by newlines when logs is a non-empty sequence, and it is the text
\* "No logs available" exactly when logs is empty or absent.
C12_LogsSection ==
    Exported =>
        LET section == LogsSection(downloads[Len(downloads)].text)
            hasLines == IF "logs" \in DOMAIN last.job
                        THEN last.job.logs /= <<>> ELSE FALSE
        IN  /\ hasLines => section = Join(last.job.logs)
            /\ (section = NoLogsText) <=> ~hasLines

\* C13: the projection of the four statuses is PENDING -> (0, gray),
\* RUNNING -> (50, blue), COMPLETED -> (100, green), FAILED -> (100, red);
\* the four colours are pairwise distinct.
C13_StatusProjection ==
    /\ \A st, other \in Status :
        st /= other => getStatusColor(st) /= getStatusColor(other)
    /\ last.op = "render" =>
        /\ last.status = "PENDING" =>
            last.progress = 0 /\ last.color = "bg-gray-500"
        /\ last.status = "RUNNING" =>
            last.progress = 50 /\ last.color = "bg-blue-500"
        /\ last.status = "COMPLETED" =>
            last.progress = 100 /\ last.color = "bg-green-500"
        /\ last.status = "FAILED" =>
            last.progress = 100 /\ last.color = "bg-red-500"

C13_Witness ==
    /\ last.op = "render"
    /\ last.status = "FAILED"
    /\ last.progress = 100

OthersOf(list, id) == SelectSeq(list, LAMBDA job : job.id /= id)

\* C14: an INSERT or UPDATE event of id X leaves every record of another id
\* as it was, and those records in their order.
C14_OnlyOwnSlot ==
    (LastEvent("INSERT") \/ LastEvent("UPDATE")) =>
        OthersOf(jobs, last.payload.new.id)
            = OthersOf(prev.jobs, last.payload.new.id)

C14_Witness ==
    /\ LastEvent("INSERT") \/ LastEvent("UPDATE")
    /\ OthersOf(prev.jobs, last.payload.new.id) /= <<>>
    /\ jobs /= prev.jobs

\* C15: an INSERT event of an id that is not listed puts the new record
\* first and moves every listed record one place back: the list is one
\* longer and the listed records keep their order.
C15_InsertPrepends ==
    (LastEvent("INSERT") /\ ~HasId(prev.jobs, last.payload.new.id)) =>
        /\ Len(jobs) = Len(prev.jobs) + 1
        /\ jobs[1] = last.payload.new
        /\ \A i \in 1..Len(prev.jobs) : jobs[i + 1] = prev.jobs[i]

C15_Witness ==
    /\ LastEvent("INSERT")
    /\ ~HasId(prev.jobs, last.payload.new.id)
    /\ prev.jobs /= <<>>

\* C16: an UPDATE event of a listed id is applied whatever status it
\* carries: every record of that id takes each field the event carries
\* (logs included, as a whole) and keeps each field it does not carry.
C16_LastAppliedWins ==
    (LastEvent("UPDATE") /\ HasId(prev.jobs, last.payload.new.id)) =>
        /\ Len(jobs) = Len(prev.jobs)
        /\ \A i \in 1..Len(prev.jobs) :
            prev.jobs[i].id = last.payload.new.id =>
                /\ \A f \in DOMAIN last.payload.new :
                    Get(jobs[i], f) = last.payload.new[f]
                /\ \A f \in (DOMAIN prev.jobs[i]) \ (DOMAIN last.payload.new) :
                    f \in DOMAIN jobs[i] /\ jobs[i][f] = prev.jobs[i][f]

\* A COMPLETED record is set back to RUNNING.
C16_Witness ==
    /\ LastEvent("UPDATE")
    /\ "status" \in DOMAIN last.payload.new
    /\ \E i \in 1..Len(prev.jobs) :
        /\ prev.jobs[i].id = last.payload.new.id
        /\ prev.jobs[i].status = "COMPLETED"
        /\ last.payload.new.status = "RUNNING"
        /\ jobs[i].status = "RUNNING"

CompletionEvent ==
    /\ LastEvent("UPDATE")
    /\ {"status", "results"} \subseteq DOMAIN last.payload.new
    /\ last.payload.new.status = "COMPLETED"
    /\ last.payload.new.results \notin Falsy

\* C17: a listed record that is RUNNING without results cannot be exported;
\* after an UPDATE event of its id with status COMPLETED and results it is
\* COMPLETED with those results and its export gives a document whose
\* first line names its id.
C17_CompletionEnablesExport ==
    CompletionEvent =>
        \A i \in 1..Len(prev.jobs) :
            (/\ prev.jobs[i].id = last.payload.new.id
             /\ prev.jobs[i].status = "RUNNING"
             /\ prev.jobs[i].results = Null) =>
                /\ ~HasResults(prev.jobs[i])
                /\ Get(jobs[i], "status") = "COMPLETED"
                /\ Get(jobs[i], "results") = last.payload.new.results
                /\ HasResults(jobs[i])
                /\ SubSeq(Download(jobs[i]).text, 1, 9)
                       = HeaderText(last.payload.new.id)

\* The record came with a loaded snapshot, RUNNING and without results.
C17_Witness ==
    /\ CompletionEvent
    /\ \E k \in Runs : fetch[k].st = "loaded"
    /\ Len(prev.jobs) = 1
    /\ prev.jobs[1].id = last.payload.new.id
    /\ prev.jobs[1].status = "RUNNING"
    /\ prev.jobs[1].results = Null

\* C18: at most one subscription is open at any time, and the effect runs
\* with a user have issued one snapshot fetch and one subscription each.
C18_SingleSubscription ==
    /\ Cardinality({k \in Runs : chan[k] = "subscribed"}) <= 1
    /\ Cardinality({k \in Runs : chan[k] /= "none"}) = run
    /\ Cardinality({k \in Runs : fetch[k].st /= "idle"}) = run
    /\ \A k \in Runs : k <= run <=> chan[k] /= "none"

\* A second session started: the first channel is closed, the second open.
C18_Witness ==
    /\ run = 2
    /\ session = 2
    /\ chan[1] = "closed"
    /\ chan[2] = "subscribed"
    /\ fetch[1].st = "requested"

\* C19: the loading flag is false once a snapshot fetch has resolved,
\* with data or with an error; once false it stays false; an event that is
\* applied does not change it.
C19_LoadingFlag ==
    /\ LastFetch => ~isLoading
    /\ ~prev.isLoading => ~isLoading
    /\ last.op = "event" => isLoading = prev.isLoading
    /\ isLoading => \A k \in Runs : fetch[k].st \in {"idle", "requested", "responded"}
                                    \/ ~mounted

\* A fetch failed after events were applied while it was pending.
C19_Witness ==
    /\ LastFetch
    /\ last.resp.error
    /\ prev.isLoading
    /\ prev.jobs /= <<>>
    /\ ~isLoading

====
